---------------------------- MODULE Spec2Model ----------------------------
(***************************************************************************)
(* A model of koka's dual-representation integers                          *)
(* (cruntime/include/runtime/integer.h): the tagged word encoding          *)
(* boxed(n) == 4*n + 1, the overflow-checked fast path on small integers,  *)
(* the dispatch to the generic (bigint) operations, and the reference      *)
(* counts of the bigint objects the operations consume.                    *)
(*                                                                         *)
(* Words are modelled as the signed value of an int_t of INTPTR_BITS bits. *)
(* The word widths are scaled down: SMALLINT_BITS stands for the 32 (or    *)
(* 16) bits of smallint_t, and INTPTR_BITS is derived from it per build    *)
(* exactly as the three #if branches of the header pair them.              *)
(***************************************************************************)
EXTENDS Integers, Sequences, FiniteSets, TLC

VARIABLES
  build,   \* which #if branch of the header was compiled
  rc,      \* reference count of every bigint object (0: freed)
  pc,      \* "idle", "done", or the position inside integer_max/integer_min
  op,      \* the entry point that was called
  x, y,    \* its operands (tagged words, or a native int for integer_from_int)
  res,     \* the value it returned
  mod,     \* what integer_div_mod stored in *mod
  call,    \* the generic operation it called, with the operands it passed
  fault,   \* "none", "reported" (a fault raised by the generic boundary),
           \* or "native_div_zero" (a native division by zero was executed)
  rc0,     \* rc when the entry point was called
  rclog    \* the reference-count operations of the call, in order

vars == <<build, rc, pc, op, x, y, res, mod, call, fault, rc0, rclog>>

---------------------------------------------------------------------------
(* Bounds of the model *)

\* width of smallint_t (32 or 16 in the header), scaled down
SMALLINT_BITS == 5

\* the most references a caller takes on one bigint with integer_dup
MaxRefs == 2

---------------------------------------------------------------------------
(* Builds and word widths: integer.h lines 19-30 *)

Builds == {"gnuc64", "gnuc32", "generic"}

\* "gnuc64":  INTPTR_SIZE==8, smallint_t half the width of int_t, __GNUC__
\* "gnuc32":  INTPTR_SIZE==4 with __GNUC__, smallint_t as wide as int_t
\* "generic": no overflow builtins, smallint_t half the width of int_t
INTPTR_BITS == IF build = "gnuc32" THEN SMALLINT_BITS ELSE 2 * SMALLINT_BITS

UseBuiltins == build \in {"gnuc64", "gnuc32"}

Pow2(n) == 2 ^ n

INTPTR_MAX == Pow2(INTPTR_BITS - 1) - 1
INTPTR_MIN == -Pow2(INTPTR_BITS - 1)

\* the value of v converted to a signed integer type of the given width
Wrap(v, bits) ==
  LET u == v % Pow2(bits)
  IN  IF u >= Pow2(bits - 1) THEN u - Pow2(bits) ELSE u

\* (int_t)v and (uint_t)v
ToInt(v)  == Wrap(v, INTPTR_BITS)
ToUint(v) == v % Pow2(INTPTR_BITS)

\* bitwise operations on two uint_t values, bit by bit from the lowest
RECURSIVE BitsAnd(_, _)
BitsAnd(a, b) ==
  IF a = 0 \/ b = 0 THEN 0
  ELSE (IF a % 2 = 1 /\ b % 2 = 1 THEN 1 ELSE 0) + 2 * BitsAnd(a \div 2, b \div 2)

RECURSIVE BitsOr(_, _)
BitsOr(a, b) ==
  IF a = 0 THEN b
  ELSE IF b = 0 THEN a
  ELSE (IF a % 2 = 1 \/ b % 2 = 1 THEN 1 ELSE 0) + 2 * BitsOr(a \div 2, b \div 2)

RECURSIVE BitsXor(_, _)
BitsXor(a, b) ==
  IF a = 0 THEN b
  ELSE IF b = 0 THEN a
  ELSE (IF (a % 2) # (b % 2) THEN 1 ELSE 0) + 2 * BitsXor(a \div 2, b \div 2)

\* a & b, a | b, a ^ b on words, the result read as int_t
And(a, b) == ToInt(BitsAnd(ToUint(a), ToUint(b)))
Or(a, b)  == ToInt(BitsOr(ToUint(a), ToUint(b)))
Xor(a, b) == ToInt(BitsXor(ToUint(a), ToUint(b)))

\* sar(i, s): arithmetic shift right of an int_t
sar(i, s) == i \div Pow2(s)

\* shr(u, s): logical shift right of the word as a uint_t
shr(u, s) == ToUint(u) \div Pow2(s)

\* C's i/j and i%j on int_t (truncation toward zero), j # 0
Abs(a) == IF a < 0 THEN -a ELSE a
CDiv(i, j) ==
  LET q == Abs(i) \div Abs(j)
  IN  IF (i < 0) # (j < 0) THEN -q ELSE q
CRem(i, j) == i - j * CDiv(i, j)

\* integer.h lines 32-33
SMALLINT_MAX == ((INTPTR_MAX \div Pow2(INTPTR_BITS - SMALLINT_BITS)) \div 4)
SMALLINT_MIN == -SMALLINT_MAX - 1

---------------------------------------------------------------------------
(* The heap of bigint objects *)

Handles == {1, 2, 3}

\* the address of each bigint object: a word with low bits 00
PtrOf(h) ==
  CASE h = 1 -> 8
    [] h = 2 -> INTPTR_MAX - 3
    [] h = 3 -> INTPTR_MIN

\* the mathematical value each bigint holds: outside the small range
BigVal(h) ==
  CASE h = 1 -> SMALLINT_MAX + 1
    [] h = 2 -> SMALLINT_MAX + 1
    [] h = 3 -> SMALLINT_MIN - 1

IsHeapPtr(w) == \E h \in Handles : PtrOf(h) = w
HandleOf(w) == CHOOSE h \in Handles : PtrOf(h) = w

---------------------------------------------------------------------------
(* Boxing: integer.h lines 12-17, boxed(n) == 4*n + 1 *)

box_int(i) == ToInt(4 * i + 1)
unbox_int(v) == sar(v, 2)

\* the tag is the low two bits: 00 a pointer, 01 an int (lines 187-193);
\* the _fast tests look at the lowest bit only
is_int(b) == And(b, 3) = 1
is_ptr(b) == And(b, 3) = 0
is_int_fast(b) == And(b, 1) = 1
is_ptr_fast(b) == And(b, 1) = 0

\* ptr_tag(unbox_ptr(i)) == TAG_BIGINT: i addresses a live bigint object
IsLiveBigint(i) == IsHeapPtr(i) /\ rc[HandleOf(i)] > 0

is_integer(i) ==
  \/ (is_int(i) /\ unbox_int(i) >= SMALLINT_MIN /\ unbox_int(i) <= SMALLINT_MAX)
  \/ (is_ptr(i) /\ IsLiveBigint(i))

is_bigint(i) == is_ptr_fast(i)

is_smallint(i) == is_int_fast(i)

\* are_smallints that accepts a pair with one small operand
are_smallints_either(i, j) == And(Or(i, j), 1) # 0

are_smallints(i, j) == And(And(i, j), 1) # 0

integer_from_small(i) == box_int(i)

---------------------------------------------------------------------------
(* Values an operation hands back, and the record of one call *)

W(v) == [k |-> "word", v |-> v]        \* an integer_t built on the fast path
B(p) == [k |-> "bool", v |-> IF p THEN 1 ELSE 0]
I(v) == [k |-> "int",  v |-> v]
G(fn) == [k |-> "generic", v |-> 0]    \* the integer_t the generic call fn returns
NoValue == [k |-> "none", v |-> 0]
\* a bool result read back
True(r) == r.v = 1

NoCall == [fn |-> "none", args |-> <<>>]
Call(fn, args) == [fn |-> fn, args |-> args]

\* what a call did: the value returned, *mod, the generic call made, the
\* fault raised, and its reference-count operations in order
Outcome(r, m, c, f, log) == [res |-> r, mod |-> m, call |-> c, fault |-> f, log |-> log]

Fast(r) == Outcome(r, NoValue, NoCall, "none", <<>>)

\* the numeric value a valid integer stands for
Val(w) == IF is_smallint(w) THEN unbox_int(w) ELSE BigVal(HandleOf(w))

---------------------------------------------------------------------------
(* Reference counting: integer.h lines 67-69 *)

Incref(w) == [k |-> "incref", args |-> <<w>>]
Decref(w) == [k |-> "decref", args |-> <<w>>]
\* a generic operation consumes every integer_t argument it receives
Consume(args) == [k |-> "generic", args |-> args]

\* boxed_dup / boxed_drop: a no-op on a small int
boxed_dup(r, w) == IF is_ptr(w) THEN [r EXCEPT ![HandleOf(w)] = @ + 1] ELSE r
boxed_drop(r, w) == IF is_ptr(w) THEN [r EXCEPT ![HandleOf(w)] = @ - 1] ELSE r

integer_incref(r, w) == boxed_dup(r, w)
integer_decref(r, w) == boxed_drop(r, w)

RECURSIVE DropAll(_, _)
DropAll(r, args) ==
  IF args = <<>> THEN r ELSE DropAll(boxed_drop(r, Head(args)), Tail(args))

RcStep(r, e) ==
  CASE e.k = "incref"  -> integer_incref(r, e.args[1])
    [] e.k = "decref"  -> integer_decref(r, e.args[1])
    [] e.k = "generic" -> DropAll(r, e.args)

RECURSIVE ApplyLog(_, _)
ApplyLog(r, log) ==
  IF log = <<>> THEN r ELSE ApplyLog(RcStep(r, Head(log)), Tail(log))

---------------------------------------------------------------------------
(* The generic boundary: integer.h lines 71-93 (declarations only) *)

\* an integer-valued generic operation: consumes its operands and returns a
\* freshly owned integer_t
Generic(fn, args) == Outcome(G(fn), NoValue, Call(fn, args), "none", <<Consume(args)>>)

\* division and modulo report a fault on a zero divisor
GenericDiv(fn, a, b) ==
  IF Val(b) = 0
  THEN Outcome(NoValue, NoValue, Call(fn, <<a, b>>), "reported", <<Consume(<<a, b>>)>>)
  ELSE Generic(fn, <<a, b>>)

GenericDivMod(a, b) ==
  IF Val(b) = 0
  THEN GenericDiv("integer_div_mod_generic", a, b)
  ELSE Outcome(G("integer_div_mod_generic"), G("integer_div_mod_generic"),
               Call("integer_div_mod_generic", <<a, b>>), "none", <<Consume(<<a, b>>)>>)

Sign(v) == IF v < 0 THEN -1 ELSE IF v > 0 THEN 1 ELSE 0

integer_cmp_generic(a, b) ==
  Outcome(I(Sign(Val(a) - Val(b))), NoValue, Call("integer_cmp_generic", <<a, b>>),
          "none", <<Consume(<<a, b>>)>>)

integer_signum_generic(a) ==
  Outcome(I(Sign(Val(a))), NoValue, Call("integer_signum_generic", <<a>>),
          "none", <<Consume(<<a>>)>>)

integer_is_even_generic(a) ==
  Outcome(B(Val(a) % 2 = 0), NoValue, Call("integer_is_even_generic", <<a>>),
          "none", <<Consume(<<a>>)>>)

\* the outcome o with its primitive result replaced by r
WithRes(o, r) == [o EXCEPT !.res = r]

---------------------------------------------------------------------------
(* Overflow detection: integer.h lines 112-161 *)

InSmallintT(v) == v >= -Pow2(SMALLINT_BITS - 1) /\ v <= Pow2(SMALLINT_BITS - 1) - 1

\* __builtin_*_overflow on (smallint_t) operands, the result sign extended
BuiltinOvf(v) == [ovf |-> ~InSmallintT(v), r |-> Wrap(v, SMALLINT_BITS)]

\* the full-width operation, then: are the top bits not 0 or -1 ?
GenericOvf(v) ==
  LET z == ToInt(v)
      s == ToUint(sar(z, SMALLINT_BITS - 1))
  IN  [ovf |-> ToUint(s + 1) > 1, r |-> z]

smallint_add_ovf(h, j) ==
  IF UseBuiltins
  THEN BuiltinOvf(Wrap(h, SMALLINT_BITS) + Wrap(j, SMALLINT_BITS))
  ELSE GenericOvf(h + j)

smallint_sub_ovf(h, j) ==
  IF UseBuiltins
  THEN BuiltinOvf(Wrap(h, SMALLINT_BITS) - Wrap(j, SMALLINT_BITS))
  ELSE GenericOvf(h - j)

smallint_mul_ovf(h, j) ==
  IF UseBuiltins
  THEN BuiltinOvf(Wrap(h, SMALLINT_BITS) * Wrap(j, SMALLINT_BITS))
  ELSE GenericOvf(h * j)

---------------------------------------------------------------------------
(* Fast arithmetic on small integers: integer.h lines 164-283 *)

\* integer_add_small without the (y^1) correction
integer_add_small_nofix(a, b) ==
  LET o == smallint_add_ovf(a, b)
  IN  IF ~o.ovf THEN Fast(W(o.r)) ELSE Generic("integer_add_generic", <<a, b>>)

integer_add_small(a, b) ==
  LET o == smallint_add_ovf(a, Xor(b, 1))
  IN  IF ~o.ovf THEN Fast(W(o.r)) ELSE Generic("integer_add_generic", <<a, b>>)

integer_sub_small(a, b) ==
  LET o == smallint_sub_ovf(a, Xor(b, 1))
  IN  IF ~o.ovf THEN Fast(W(o.r)) ELSE Generic("integer_sub_generic", <<a, b>>)

integer_mul_small(a, b) ==
  LET i == sar(a, 1)
      j == sar(b, 1)
      o == smallint_mul_ovf(i, j)
  IN  IF ~o.ovf THEN Fast(W(Or(o.r, 1))) ELSE Generic("integer_mul_generic", <<a, b>>)

\* i/j and i%j are undefined for j = 0: the division either traps or
\* leaves an unspecified int_t
UnspecifiedInts == {INTPTR_MIN, -1, 0, 1, INTPTR_MAX}
NativeDiv(i, j) == IF j = 0 THEN UnspecifiedInts ELSE {CDiv(i, j)}
NativeRem(i, j) == IF j = 0 THEN UnspecifiedInts ELSE {CRem(i, j)}
NativeTrap(j) ==
  IF j = 0 THEN {Outcome(NoValue, NoValue, NoCall, "trap", <<>>)} ELSE {}

\* the three below give the set of outcomes the build can produce
integer_div_small(a, b) ==
  LET i == sar(a, 1)
      j == sar(b, 1)
  IN  {Fast(W(Or(shr(q, 2), 1))) : q \in NativeDiv(i, j)} \cup NativeTrap(j)

integer_mod_small(a, b) ==
  LET i == sar(a, 1)
      j == sar(b, 1)
  IN  {Fast(W(Or(shr(r, 1), 1))) : r \in NativeRem(i, j)} \cup NativeTrap(j)

integer_div_mod_small(a, b) ==
  LET i == sar(a, 1)
      j == sar(b, 1)
  IN  {Outcome(W(Or(shr(q, 2), 1)), W(Or(shr(r, 1), 1)), NoCall, "none", <<>>) :
         q \in NativeDiv(i, j), r \in NativeRem(i, j)} \cup NativeTrap(j)

integer_div(a, b) ==
  IF are_smallints(a, b) THEN integer_div_small(a, b)
  ELSE {GenericDiv("integer_div_generic", a, b)}

integer_mod(a, b) ==
  IF are_smallints(a, b) THEN integer_mod_small(a, b)
  ELSE {GenericDiv("integer_mod_generic", a, b)}

integer_div_mod(a, b) ==
  IF are_smallints(a, b) THEN integer_div_mod_small(a, b)
  ELSE {GenericDivMod(a, b)}

---------------------------------------------------------------------------
(* The arithmetic entry points: integer.h lines 179-249 and 316-334 *)

\* lines 180-185 (commented out in the header): the reference dispatch
integer_add_reference(a, b) ==
  IF are_smallints(a, b) THEN integer_add_small(a, b)
  ELSE Generic("integer_add_generic", <<a, b>>)

\* `int_t z = x + y` on full words (line 141): signed overflow is undefined,
\* the build may wrap or leave any int_t in z
SignedOverflow(v) == v < INTPTR_MIN \/ v > INTPTR_MAX
FullAdd(h, j) ==
  IF SignedOverflow(h + j) THEN {ToInt(h + j)} \cup UnspecifiedInts ELSE {h + j}

\* smallint_add_ovf applied to two full words: every (ovf, r) it can give
smallint_add_ovf_words(h, j) ==
  IF UseBuiltins THEN {smallint_add_ovf(h, j)}
  ELSE {GenericOvf(z) : z \in FullAdd(h, j)}

\* lines 195-204: add the words first, look at bit 1 of the sum afterwards;
\* the set of outcomes the build can produce
integer_add(a, b) ==
  {IF ~o.ovf /\ And(o.r, 2) # 0
   THEN Fast(W(Xor(o.r, 3)))
   ELSE Generic("integer_add_generic", <<a, b>>) : o \in smallint_add_ovf_words(a, b)}

integer_sub(a, b) ==
  IF are_smallints(a, b) THEN integer_sub_small(a, b)
  ELSE Generic("integer_sub_generic", <<a, b>>)

integer_mul(a, b) ==
  IF are_smallints(a, b) THEN integer_mul_small(a, b)
  ELSE Generic("integer_mul_generic", <<a, b>>)

integer_sqr(a) ==
  IF is_smallint(a) THEN integer_mul_small(a, a)
  ELSE Generic("integer_sqr_generic", <<a>>)

integer_neg(a) ==
  IF is_smallint(a) THEN integer_sub_small(box_int(0), a)
  ELSE Generic("integer_neg_generic", <<a>>)

integer_dec(a) ==
  IF is_smallint(a) THEN integer_sub(a, integer_from_small(1))
  ELSE Generic("integer_sub_generic", <<a, integer_from_small(1)>>)

integer_inc(a) ==
  IF is_smallint(a) THEN integer_add(a, integer_from_small(1))
  ELSE {Generic("integer_add_generic", <<a, integer_from_small(1)>>)}

---------------------------------------------------------------------------
(* Construction: integer.h lines 108-110 *)

\* integer_from_int with the upper bound off by one
integer_from_int_off(i) ==
  IF i >= SMALLINT_MIN /\ i <= SMALLINT_MAX + 1
  THEN Fast(W(integer_from_small(i)))
  ELSE Outcome(G("integer_from_big"), NoValue, Call("integer_from_big", <<i>>), "none", <<>>)

integer_from_int(i) ==
  IF i >= SMALLINT_MIN /\ i <= SMALLINT_MAX
  THEN Fast(W(integer_from_small(i)))
  ELSE Outcome(G("integer_from_big"), NoValue, Call("integer_from_big", <<i>>), "none", <<>>)

---------------------------------------------------------------------------
(* Comparisons: integer.h lines 336-369 *)

\* x < y, x <= y, x > y, x >= y on two integer_t words
WordLt(a, b) == a < b
WordLe(a, b) == a <= b
WordGt(a, b) == a > b
WordGe(a, b) == a >= b

integer_cmp(a, b) ==
  IF are_smallints(a, b)
  THEN Fast(I(IF a = b THEN 0 ELSE (IF WordGt(a, b) THEN 1 ELSE -1)))
  ELSE integer_cmp_generic(a, b)

integer_lt(a, b) ==
  IF are_smallints(a, b) THEN Fast(B(WordLt(a, b)))
  ELSE LET o == integer_cmp(a, b) IN WithRes(o, B(o.res.v = -1))

\* integer_lte with a strict comparison on the fast path
integer_lte_strict(a, b) ==
  IF are_smallints(a, b) THEN Fast(B(WordLt(a, b)))
  ELSE LET o == integer_cmp(a, b) IN WithRes(o, B(o.res.v <= 0))

integer_lte(a, b) ==
  IF are_smallints(a, b) THEN Fast(B(WordLe(a, b)))
  ELSE LET o == integer_cmp(a, b) IN WithRes(o, B(o.res.v <= 0))

integer_gt(a, b) ==
  IF are_smallints(a, b) THEN Fast(B(WordGt(a, b)))
  ELSE LET o == integer_cmp(a, b) IN WithRes(o, B(o.res.v = 1))

integer_gte(a, b) ==
  IF are_smallints(a, b) THEN Fast(B(WordGe(a, b)))
  ELSE LET o == integer_cmp(a, b) IN WithRes(o, B(o.res.v >= 0))

integer_eq(a, b) ==
  IF are_smallints(a, b) THEN Fast(B(a = b))
  ELSE LET o == integer_cmp(a, b) IN WithRes(o, B(o.res.v = 0))

integer_neq(a, b) ==
  IF are_smallints(a, b) THEN Fast(B(a # b))
  ELSE LET o == integer_cmp(a, b) IN WithRes(o, B(o.res.v # 0))

---------------------------------------------------------------------------
(* Sign and parity queries: integer.h lines 371-412 *)

Dropped(r, a) == Outcome(r, NoValue, NoCall, "none", <<Decref(a)>>)

integer_is_zero(a) ==
  IF is_smallint(a) THEN Fast(B(a = integer_from_small(0)))
  ELSE Dropped(B(FALSE), a)

\* integer_is_one that forgets to release a bigint argument
integer_is_one_leak(a) ==
  IF is_smallint(a) THEN Fast(B(a = integer_from_small(1)))
  ELSE Fast(B(FALSE))

integer_is_one(a) ==
  IF is_smallint(a) THEN Fast(B(a = integer_from_small(1)))
  ELSE Dropped(B(FALSE), a)

integer_is_minus_one(a) ==
  IF is_smallint(a) THEN Fast(B(a = integer_from_small(-1)))
  ELSE Dropped(B(FALSE), a)

integer_is_even(a) ==
  IF is_smallint(a) THEN Fast(B(And(a, 8) = 0))
  ELSE integer_is_even_generic(a)

integer_is_odd(a) ==
  IF is_smallint(a) THEN Fast(B(And(a, 8) # 0))
  ELSE LET o == integer_is_even_generic(a) IN WithRes(o, B(~True(o.res)))

Bit(p) == IF p THEN 1 ELSE 0

integer_signum(a) ==
  IF is_smallint(a) THEN Fast(I(Bit(ToInt(a) > 1) - Bit(ToInt(a) < 0)))
  ELSE integer_signum_generic(a)

integer_is_neg(a) ==
  IF is_smallint(a) THEN Fast(B(ToInt(a) < 0))
  ELSE LET o == integer_signum_generic(a) IN WithRes(o, B(o.res.v < 0))

\* integer_is_pos that compares the word with 0 rather than with boxed(0)
integer_is_pos_zero(a) ==
  IF is_smallint(a) THEN Fast(B(ToInt(a) > 0))
  ELSE LET o == integer_signum_generic(a) IN WithRes(o, B(o.res.v > 0))

integer_is_pos(a) ==
  IF is_smallint(a) THEN Fast(B(ToInt(a) > 1))
  ELSE LET o == integer_signum_generic(a) IN WithRes(o, B(o.res.v > 0))

---------------------------------------------------------------------------
(* The state machine: a caller that holds references and calls entry points *)

\* words a caller might hold: every tag, in and out of the small range
Candidates ==
  {w \in (4 * (SMALLINT_MIN - 2)) .. (4 * (SMALLINT_MAX + 2) + 3) :
      w >= INTPTR_MIN /\ w <= INTPTR_MAX}
  \cup {PtrOf(h) : h \in Handles}

\* the valid integers of the current state
Integers_ == {w \in Candidates : is_integer(w)}
SmallInts == {w \in Integers_ : is_smallint(w)}

\* native int_t values handed to integer_from_int
NativeInts ==
  {i \in (SMALLINT_MIN - 2) .. (SMALLINT_MAX + 2) : i >= INTPTR_MIN /\ i <= INTPTR_MAX}
  \cup {INTPTR_MIN, INTPTR_MAX}

\* the caller owns one reference for every bigint operand it passes
Owned(args) ==
  \A h \in Handles :
     rc[h] >= Cardinality({i \in DOMAIN args : args[i] = PtrOf(h)})

Init ==
  /\ build \in Builds
  /\ rc = [h \in Handles |-> 1]
  /\ pc = "idle"
  /\ op = "none"
  /\ x = 0
  /\ y = 0
  /\ res = NoValue
  /\ mod = NoValue
  /\ call = NoCall
  /\ fault = "none"
  /\ rc0 = [h \in Handles |-> 1]
  /\ rclog = <<>>

\* entry point `name` called with (a, b) runs to completion with outcome o
Do(name, a, b, o) ==
  /\ pc = "idle"
  /\ pc' = "done"
  /\ op' = name
  /\ x' = a
  /\ y' = b
  /\ res' = o.res
  /\ mod' = o.mod
  /\ call' = o.call
  /\ fault' = o.fault
  /\ rc0' = rc
  /\ rclog' = o.log
  /\ rc' = ApplyLog(rc, o.log)
  /\ UNCHANGED build

\* the caller takes another reference: integer_dup
IntegerDup ==
  /\ pc = "idle"
  /\ \E h \in Handles :
    /\ rc[h] > 0
    /\ rc[h] < MaxRefs
    /\ rc' = integer_incref(rc, PtrOf(h))
    /\ rc0' = rc'
    /\ UNCHANGED <<build, pc, op, x, y, res, mod, call, fault, rclog>>

\* the caller takes the result and goes on
Return ==
  /\ pc = "done"
  /\ pc' = "idle"
  /\ op' = "none"
  /\ x' = 0
  /\ y' = 0
  /\ res' = NoValue
  /\ mod' = NoValue
  /\ call' = NoCall
  /\ fault' = "none"
  /\ rc0' = rc
  /\ rclog' = <<>>
  /\ UNCHANGED <<build, rc>>

IsSmallint ==
  /\ pc = "idle"
  /\ \E a \in Integers_ : Do("is_smallint", a, 0, Fast(B(is_smallint(a))))
IsBigint ==
  /\ pc = "idle"
  /\ \E a \in Integers_ : Do("is_bigint", a, 0, Fast(B(is_bigint(a))))
AreSmallints ==
  /\ pc = "idle"
  /\ \E a \in Integers_, b \in Integers_ :
    Do("are_smallints", a, b, Fast(B(are_smallints(a, b))))

IntegerFromInt ==
  /\ pc = "idle"
  /\ \E i \in NativeInts : Do("integer_from_int", i, 0, integer_from_int(i))

IntegerAddSmall ==
  /\ pc = "idle"
  /\ \E a \in SmallInts, b \in SmallInts : Do("integer_add_small", a, b, integer_add_small(a, b))
IntegerSubSmall ==
  /\ pc = "idle"
  /\ \E a \in SmallInts, b \in SmallInts : Do("integer_sub_small", a, b, integer_sub_small(a, b))
IntegerMulSmall ==
  /\ pc = "idle"
  /\ \E a \in SmallInts, b \in SmallInts : Do("integer_mul_small", a, b, integer_mul_small(a, b))

IntegerAdd ==
  /\ pc = "idle"
  /\ \E a \in Integers_, b \in Integers_ :
    /\ Owned(<<a, b>>)
    /\ \E o \in integer_add(a, b) : Do("integer_add", a, b, o)
IntegerSub ==
  /\ pc = "idle"
  /\ \E a \in Integers_, b \in Integers_ :
    /\ Owned(<<a, b>>)
    /\ Do("integer_sub", a, b, integer_sub(a, b))
IntegerMul ==
  /\ pc = "idle"
  /\ \E a \in Integers_, b \in Integers_ :
    /\ Owned(<<a, b>>)
    /\ Do("integer_mul", a, b, integer_mul(a, b))
IntegerSqr ==
  /\ pc = "idle"
  /\ \E a \in Integers_ : Do("integer_sqr", a, 0, integer_sqr(a))
IntegerNeg ==
  /\ pc = "idle"
  /\ \E a \in Integers_ : Do("integer_neg", a, 0, integer_neg(a))
IntegerDec ==
  /\ pc = "idle"
  /\ \E a \in Integers_ : Do("integer_dec", a, 0, integer_dec(a))
IntegerInc ==
  /\ pc = "idle"
  /\ \E a \in Integers_ : \E o \in integer_inc(a) : Do("integer_inc", a, 0, o)

IntegerDiv ==
  /\ pc = "idle"
  /\ \E a \in Integers_, b \in Integers_ :
    /\ Owned(<<a, b>>)
    /\ \E o \in integer_div(a, b) : Do("integer_div", a, b, o)
IntegerMod ==
  /\ pc = "idle"
  /\ \E a \in Integers_, b \in Integers_ :
    /\ Owned(<<a, b>>)
    /\ \E o \in integer_mod(a, b) : Do("integer_mod", a, b, o)
IntegerDivMod ==
  /\ pc = "idle"
  /\ \E a \in Integers_, b \in Integers_ :
    /\ Owned(<<a, b>>)
    /\ \E o \in integer_div_mod(a, b) : Do("integer_div_mod", a, b, o)

IntegerCmp ==
  /\ pc = "idle"
  /\ \E a \in Integers_, b \in Integers_ :
    Owned(<<a, b>>) /\ Do("integer_cmp", a, b, integer_cmp(a, b))
IntegerLt ==
  /\ pc = "idle"
  /\ \E a \in Integers_, b \in Integers_ :
    Owned(<<a, b>>) /\ Do("integer_lt", a, b, integer_lt(a, b))
IntegerLte ==
  /\ pc = "idle"
  /\ \E a \in Integers_, b \in Integers_ :
    Owned(<<a, b>>) /\ Do("integer_lte", a, b, integer_lte(a, b))
IntegerGt ==
  /\ pc = "idle"
  /\ \E a \in Integers_, b \in Integers_ :
    Owned(<<a, b>>) /\ Do("integer_gt", a, b, integer_gt(a, b))
IntegerGte ==
  /\ pc = "idle"
  /\ \E a \in Integers_, b \in Integers_ :
    Owned(<<a, b>>) /\ Do("integer_gte", a, b, integer_gte(a, b))
IntegerEq ==
  /\ pc = "idle"
  /\ \E a \in Integers_, b \in Integers_ :
    Owned(<<a, b>>) /\ Do("integer_eq", a, b, integer_eq(a, b))
IntegerNeq ==
  /\ pc = "idle"
  /\ \E a \in Integers_, b \in Integers_ :
    Owned(<<a, b>>) /\ Do("integer_neq", a, b, integer_neq(a, b))

IntegerIsZero ==
  /\ pc = "idle"
  /\ \E a \in Integers_ : Do("integer_is_zero", a, 0, integer_is_zero(a))
IntegerIsOne ==
  /\ pc = "idle"
  /\ \E a \in Integers_ : Do("integer_is_one", a, 0, integer_is_one(a))
IntegerIsMinusOne ==
  /\ pc = "idle"
  /\ \E a \in Integers_ : Do("integer_is_minus_one", a, 0, integer_is_minus_one(a))
IntegerIsEven ==
  /\ pc = "idle"
  /\ \E a \in Integers_ : Do("integer_is_even", a, 0, integer_is_even(a))
IntegerIsOdd ==
  /\ pc = "idle"
  /\ \E a \in Integers_ : Do("integer_is_odd", a, 0, integer_is_odd(a))
IntegerSignum ==
  /\ pc = "idle"
  /\ \E a \in Integers_ : Do("integer_signum", a, 0, integer_signum(a))
IntegerIsNeg ==
  /\ pc = "idle"
  /\ \E a \in Integers_ : Do("integer_is_neg", a, 0, integer_is_neg(a))
IntegerIsPos ==
  /\ pc = "idle"
  /\ \E a \in Integers_ : Do("integer_is_pos", a, 0, integer_is_pos(a))

---------------------------------------------------------------------------
(* integer_max / integer_min: integer.h lines 414-434, statement by statement *)

\* line 415 / 426 (both small: a select on the words), else line 416 / 427
\* (integer_incref(x); integer_incref(y))
SelectEnter(name, a, b, pick, next) ==
  IF are_smallints(a, b)
  THEN Do(name, a, b, Fast(W(pick)))
  ELSE /\ pc = "idle"
       /\ pc' = next
       /\ op' = name
       /\ x' = a
       /\ y' = b
       /\ rc0' = rc
       /\ rc' = integer_incref(integer_incref(rc, a), b)
       /\ rclog' = <<Incref(a), Incref(b)>>
       /\ UNCHANGED <<build, res, mod, call, fault>>

\* line 417 / 428: the comparison, which consumes x and y
SelectCompare(at, o, next) ==
  /\ pc = at
  /\ pc' = next
  /\ res' = o.res
  /\ call' = o.call
  /\ rc' = ApplyLog(rc, o.log)
  /\ rclog' = rclog \o o.log
  /\ UNCHANGED <<build, op, x, y, mod, fault, rc0>>

\* lines 418-422 / 429-433: drop the loser, return the winner
\* the drop that releases y on both branches
SelectDrop_y(at) ==
  /\ pc = at
  /\ pc' = "done"
  /\ LET winner == IF True(res) THEN x ELSE y
     IN  /\ rc' = integer_decref(rc, y)
         /\ rclog' = Append(rclog, Decref(y))
         /\ res' = W(winner)
  /\ UNCHANGED <<build, op, x, y, mod, call, fault, rc0>>

SelectDrop(at) ==
  /\ pc = at
  /\ pc' = "done"
  /\ LET loser  == IF True(res) THEN y ELSE x
         winner == IF True(res) THEN x ELSE y
     IN  /\ rc' = integer_decref(rc, loser)
         /\ rclog' = Append(rclog, Decref(loser))
         /\ res' = W(winner)
  /\ UNCHANGED <<build, op, x, y, mod, call, fault, rc0>>

IntegerMax ==
  /\ pc = "idle"
  /\ \E a \in Integers_, b \in Integers_ :
    /\ Owned(<<a, b>>)
    /\ SelectEnter("integer_max", a, b, IF WordGe(a, b) THEN a ELSE b, "max_cmp")
MaxCompare == SelectCompare("max_cmp", integer_gte(x, y), "max_drop")
MaxDrop == SelectDrop("max_drop")

IntegerMin ==
  /\ pc = "idle"
  /\ \E a \in Integers_, b \in Integers_ :
    /\ Owned(<<a, b>>)
    /\ SelectEnter("integer_min", a, b, IF WordLe(a, b) THEN a ELSE b, "min_cmp")
MinCompare == SelectCompare("min_cmp", integer_lte(x, y), "min_drop")
MinDrop == SelectDrop("min_drop")

---------------------------------------------------------------------------

Next ==
  \/ IntegerDup
  \/ Return
  \/ IsSmallint
  \/ IsBigint
  \/ AreSmallints
  \/ IntegerFromInt
  \/ IntegerAddSmall
  \/ IntegerSubSmall
  \/ IntegerMulSmall
  \/ IntegerAdd
  \/ IntegerSub
  \/ IntegerMul
  \/ IntegerSqr
  \/ IntegerNeg
  \/ IntegerDec
  \/ IntegerInc
  \/ IntegerDiv
  \/ IntegerMod
  \/ IntegerDivMod
  \/ IntegerCmp
  \/ IntegerLt
  \/ IntegerLte
  \/ IntegerGt
  \/ IntegerGte
  \/ IntegerEq
  \/ IntegerNeq
  \/ IntegerIsZero
  \/ IntegerIsOne
  \/ IntegerIsMinusOne
  \/ IntegerIsEven
  \/ IntegerIsOdd
  \/ IntegerSignum
  \/ IntegerIsNeg
  \/ IntegerIsPos
  \/ IntegerMax
  \/ MaxCompare
  \/ MaxDrop
  \/ IntegerMin
  \/ MinCompare
  \/ MinDrop

Spec == Init /\ [][Next]_vars

---------------------------------------------------------------------------
(* The same machine restricted to one family of entry points at a time *)

\* the classification predicates and the constructor
NextTag ==
  \/ IntegerDup
  \/ Return
  \/ IsSmallint
  \/ IsBigint
  \/ AreSmallints
  \/ IntegerFromInt
  \/ IntegerIsZero

SpecTag == Init /\ [][NextTag]_vars

\* the fast path of add, sub and mul
NextArith ==
  \/ Return
  \/ IntegerAddSmall
  \/ IntegerSubSmall
  \/ IntegerMulSmall

SpecArith == Init /\ [][NextArith]_vars

\* division and modulo
NextDiv ==
  \/ IntegerDup
  \/ Return
  \/ IntegerDiv
  \/ IntegerMod
  \/ IntegerDivMod

SpecDiv == Init /\ [][NextDiv]_vars

\* the comparisons
NextCmp ==
  \/ IntegerDup
  \/ Return
  \/ IntegerCmp
  \/ IntegerLt
  \/ IntegerLte
  \/ IntegerGt
  \/ IntegerGte
  \/ IntegerEq
  \/ IntegerNeq

SpecCmp == Init /\ [][NextCmp]_vars

\* the sign and parity queries
NextSign ==
  \/ IntegerDup
  \/ Return
  \/ IntegerIsZero
  \/ IntegerIsOne
  \/ IntegerIsMinusOne
  \/ IntegerIsEven
  \/ IntegerIsOdd
  \/ IntegerSignum
  \/ IntegerIsNeg
  \/ IntegerIsPos

SpecSign == Init /\ [][NextSign]_vars

\* max and min
NextSelect ==
  \/ IntegerDup
  \/ Return
  \/ IntegerMax
  \/ MaxCompare
  \/ MaxDrop
  \/ IntegerMin
  \/ MinCompare
  \/ MinDrop

SpecSelect == Init /\ [][NextSelect]_vars

\* integer_add on every pair of valid integers
NextAdd ==
  \/ IntegerDup
  \/ Return
  \/ IntegerAdd

SpecAdd == Init /\ [][NextAdd]_vars

\* every entry point that returns an integer_t from a fast path
NextEntry ==
  \/ Return
  \/ IntegerAdd
  \/ IntegerSub
  \/ IntegerMul
  \/ IntegerSqr
  \/ IntegerNeg
  \/ IntegerDec
  \/ IntegerInc
  \/ IntegerDiv
  \/ IntegerMod
  \/ IntegerDivMod
  \/ IntegerMax
  \/ MaxCompare
  \/ MaxDrop
  \/ IntegerMin
  \/ MinCompare
  \/ MinDrop

SpecEntry == Init /\ [][NextEntry]_vars

---------------------------------------------------------------------------
(* Properties *)

Done == pc = "done"
InSmallRange(v) == v >= SMALLINT_MIN /\ v <= SMALLINT_MAX
nx == unbox_int(x)
ny == unbox_int(y)
BothSmall == are_smallints(x, y)

\* the fast path returned boxed(v); no generic operation was called
FastWord(v) == res.k = "word" /\ res.v = 4 * v + 1 /\ call = NoCall
\* the generic operation fn was called with the original operands
WentGeneric(fn) == res.k = "generic" /\ call = Call(fn, <<x, y>>)

ExactOrGeneric(v, fn) == IF InSmallRange(v) THEN FastWord(v) ELSE WentGeneric(fn)

\* C1: on two small operands integer_add_small, integer_sub_small and
\* integer_mul_small return boxed(n op m) exactly when n op m is in
\* [SMALLINT_MIN, SMALLINT_MAX], and otherwise call the generic operation
\* with the unmodified operands.
C1_FastArithExact ==
  Done =>
    /\ op = "integer_add_small" => ExactOrGeneric(nx + ny, "integer_add_generic")
    /\ op = "integer_sub_small" => ExactOrGeneric(nx - ny, "integer_sub_generic")
    /\ op = "integer_mul_small" => ExactOrGeneric(nx * ny, "integer_mul_generic")

\* add(SMALLINT_MAX, 1) took the overflow branch
C1_Witness ==
  /\ Done
  /\ op = "integer_add_small"
  /\ nx = SMALLINT_MAX
  /\ ny = 1
  /\ call = Call("integer_add_generic", <<x, y>>)

IsDivOp == op \in {"integer_div", "integer_mod", "integer_div_mod"}

\* C2: integer_div, integer_mod and integer_div_mod called with a divisor
\* whose value is zero report a fault rather than returning a value or
\* performing a native division by zero, for every dividend, small or big.
C2_ZeroDivisorFaults ==
  (Done /\ IsDivOp /\ Val(y) = 0) => (fault = "reported" /\ res.k = "none")

HandleIs(w, h) == PtrOf(h) = w
BigOperands == {h \in Handles : HandleIs(x, h) \/ HandleIs(y, h)}
InSelect == op \in {"integer_max", "integer_min"}

\* the operand the comparison of the values makes the winner
XWins ==
  IF op = "integer_max" THEN Val(x) >= Val(y) ELSE Val(x) <= Val(y)
Winner == IF XWins THEN x ELSE y
Loser  == IF XWins THEN y ELSE x

\* increment x and y, compare (consuming both), decrement the loser
SelectSequence ==
  /\ rclog = <<Incref(x), Incref(y), Consume(<<x, y>>), Decref(Loser)>>
  /\ call = Call("integer_cmp_generic", <<x, y>>)
  /\ res = W(Winner)

\* no operand is freed while the call is between its increments and its
\* final decrement
AliveDuringCompare ==
  (InSelect /\ pc \in {"max_cmp", "max_drop", "min_cmp", "min_drop"}) =>
     \A h \in BigOperands : rc[h] > 0

LoserOneLower ==
  \A h \in Handles : HandleIs(Loser, h) => rc[h] = rc0[h] - 1

\* C3 as stated: with at least one big operand, integer_max and integer_min
\* increment x and y, compare, decrement exactly the loser and return the
\* winner; the loser's count ends one lower, the winner's count is
\* unchanged, and no count reaches zero before the comparison has finished,
\* also when x and y are the same handle.
C3_AsStated ==
  /\ AliveDuringCompare
  /\ (Done /\ InSelect /\ ~BothSmall) =>
       /\ SelectSequence
       /\ LoserOneLower
       /\ \A h \in Handles : HandleIs(Winner, h) => rc[h] = rc0[h]

\* C3 amended: as above, but the winner's count is unchanged when the winner
\* and the loser are different objects; when x and y are the same handle its
\* count ends exactly one lower (two references in, one handed back).
\* Every other object's count is unchanged.
C3_SelectRefcounts ==
  /\ AliveDuringCompare
  /\ (Done /\ InSelect /\ ~BothSmall) =>
       /\ SelectSequence
       /\ LoserOneLower
       /\ \A h \in Handles : ~HandleIs(Loser, h) => rc[h] = rc0[h]
       /\ \A h \in Handles : HandleIs(Winner, h) => rc[h] > 0

\* integer_max of two different bigints returned y and released x
C3_Witness ==
  /\ Done
  /\ op = "integer_max"
  /\ is_bigint(x) /\ is_bigint(y) /\ x # y
  /\ res = W(y)
  /\ rc[HandleOf(x)] = rc0[HandleOf(x)] - 1

\* C4: for small operands with m # 0, integer_div_small returns
\* boxed(n / m), integer_mod_small returns boxed(n % m) (C's truncated
\* quotient and remainder), and integer_div_mod_small returns the first and
\* stores the second in *mod.
C4_SmallDivExact ==
  (Done /\ IsDivOp /\ BothSmall /\ ny # 0) =>
    /\ op = "integer_div" => res = W(4 * CDiv(nx, ny) + 1)
    /\ op = "integer_mod" => res = W(4 * CRem(nx, ny) + 1)
    /\ op = "integer_div_mod" =>
         res = W(4 * CDiv(nx, ny) + 1) /\ mod = W(4 * CRem(nx, ny) + 1)

\* the answers of the comparisons that stayed on the fast path are those of
\* the decoded values
C5_SmallCompareOrder ==
  (Done /\ BothSmall /\ call = NoCall) =>
    /\ op = "integer_lt"  => res = B(nx < ny)
    /\ op = "integer_lte" => res = B(nx <= ny)
    /\ op = "integer_gt"  => res = B(nx > ny)
    /\ op = "integer_gte" => res = B(nx >= ny)
    /\ op = "integer_eq"  => res = B(nx = ny)
    /\ op = "integer_neq" => res = B(nx # ny)
    /\ op = "integer_cmp" => res = I(Sign(nx - ny))

IsCompareOp ==
  op \in {"integer_cmp", "integer_lt", "integer_lte", "integer_gt",
          "integer_gte", "integer_eq", "integer_neq"}

\* the comparisons of two small operands never leave the fast path
C5_SmallCompareFast ==
  (Done /\ IsCompareOp /\ BothSmall) => (call = NoCall /\ rc = rc0)

\* C5: on two small operands the comparisons are done on the encoded words
\* and agree with the numeric order of the decoded values, operands of
\* opposite sign included: lt, lte, gt, gte, eq, neq answer n < m, n <= m,
\* n > m, n >= m, n = m, n # m and integer_cmp returns -1, 0 or 1.
C5_SmallCompare == C5_SmallCompareOrder /\ C5_SmallCompareFast

\* a negative and a positive small operand were compared
C5_Witness ==
  /\ Done
  /\ op = "integer_lte"
  /\ BothSmall
  /\ nx < 0 /\ ny > 0
  /\ res = B(TRUE)

\* C6: for a small x = boxed(n), integer_is_even(x) is true iff n is
\* divisible by 2 and integer_is_odd(x) is true iff it is not.
C6_SmallParity ==
  (Done /\ is_smallint(x)) =>
    /\ op = "integer_is_even" => res = B(nx % 2 = 0)
    /\ op = "integer_is_odd"  => res = B(nx % 2 # 0)

\* the three sign predicates and the signum of one valid integer
Neg(a) == True(integer_is_neg(a).res)
Zero(a) == True(integer_is_zero(a).res)
Pos(a) == True(integer_is_pos(a).res)
Signum(a) == integer_signum(a).res.v

\* C7: for every valid integer exactly one of is_neg, is_zero, is_pos is
\* true and signum is -1, 0 or 1 respectively; the answers are those of the
\* value the integer stands for, and a big operand is decided by the generic
\* signum, with is_zero false.
C7_SignTrichotomy ==
  /\ \A a \in Integers_ :
       /\ Cardinality({p \in {"neg", "zero", "pos"} :
             \/ p = "neg" /\ Neg(a)
             \/ p = "zero" /\ Zero(a)
             \/ p = "pos" /\ Pos(a)}) = 1
       /\ Neg(a) => Signum(a) = -1
       /\ Zero(a) => Signum(a) = 0
       /\ Pos(a) => Signum(a) = 1
  /\ Done =>
       /\ op = "integer_is_neg"  => res = B(Val(x) < 0)
       /\ op = "integer_is_zero" => res = B(Val(x) = 0)
       /\ op = "integer_is_pos"  => res = B(Val(x) > 0)
       /\ op = "integer_signum"  => res = I(Sign(Val(x)))
       /\ (op \in {"integer_is_neg", "integer_is_pos", "integer_signum"}) =>
            call = (IF is_bigint(x) THEN Call("integer_signum_generic", <<x>>) ELSE NoCall)

\* integer_is_neg answered true for a negative bigint
C7_Witness ==
  /\ Done
  /\ op = "integer_is_neg"
  /\ is_bigint(x)
  /\ res = B(TRUE)

IsSentinelOp == op \in {"integer_is_zero", "integer_is_one", "integer_is_minus_one"}

\* C8: integer_is_zero, integer_is_one and integer_is_minus_one decrement a
\* big argument's reference count exactly once and return false; on a small
\* argument they perform no reference-count operation and return true iff
\* the word is the encoding of 0, 1 or -1.
C8_SentinelConsumes ==
  (Done /\ IsSentinelOp) =>
    IF is_bigint(x)
    THEN /\ res = B(FALSE)
         /\ rclog = <<Decref(x)>>
         /\ rc = [rc0 EXCEPT ![HandleOf(x)] = @ - 1]
         /\ call = NoCall
    ELSE /\ rclog = <<>>
         /\ rc = rc0
         /\ call = NoCall
         /\ op = "integer_is_zero" => res = B(x = 1)
         /\ op = "integer_is_one" => res = B(x = 5)
         /\ op = "integer_is_minus_one" => res = B(x = -3)

\* integer_is_one released a bigint
C8_Witness ==
  /\ Done
  /\ op = "integer_is_one"
  /\ is_bigint(x)
  /\ rc[HandleOf(x)] = rc0[HandleOf(x)] - 1

\* C9: integer_from_int(i) for i in [SMALLINT_MIN, SMALLINT_MAX] returns a
\* small value that classifies as small and decodes to i, without calling
\* integer_from_big; for every other i it delegates to integer_from_big and
\* builds no small value.
C9_FromIntRoundTrip ==
  (Done /\ op = "integer_from_int") =>
    IF InSmallRange(x)
    THEN /\ res.k = "word"
         /\ is_integer(res.v)
         /\ is_smallint(res.v)
         /\ ~is_bigint(res.v)
         /\ unbox_int(res.v) = x
         /\ call = NoCall
    ELSE /\ res.k = "generic"
         /\ call = Call("integer_from_big", <<x>>)

\* integer_from_int(SMALLINT_MAX + 1) and (SMALLINT_MIN - 1) went to
\* integer_from_big
C9_Witness ==
  /\ Done
  /\ op = "integer_from_int"
  /\ x \in {SMALLINT_MAX + 1, SMALLINT_MIN - 1}
  /\ call.fn = "integer_from_big"

\* C10: every valid integer is exactly one of is_smallint and is_bigint,
\* and are_smallints(a, b) is true iff is_smallint(a) and is_smallint(b)
\* are both true.
C10_Classification ==
  /\ \A v \in Candidates :
       is_integer(v) => (is_smallint(v) # is_bigint(v))
  /\ \A a \in Integers_, b \in Integers_ :
       are_smallints(a, b) <=> (is_smallint(a) /\ is_smallint(b))
  /\ Done =>
       /\ op = "is_smallint" => res = B(~IsHeapPtr(x))
       /\ op = "is_bigint" => res = B(IsHeapPtr(x))
       /\ op = "are_smallints" => res = B(~IsHeapPtr(x) /\ ~IsHeapPtr(y))

\* a mixed pair, one big and one small, was classified
C10_Witness ==
  /\ Done
  /\ op = "are_smallints"
  /\ is_bigint(x) /\ is_smallint(y)
  /\ res = B(FALSE)

\* the call's outcome is the outcome o
SameOutcome(o) ==
  /\ res = o.res
  /\ mod = o.mod
  /\ call = o.call
  /\ fault = o.fault
  /\ rclog = o.log

\* C11: integer_add, which adds the two tagged words first and inspects bit
\* 1 of the sum afterwards, behaves exactly like the reference dispatch
\* are_smallints(x,y) ? integer_add_small(x,y) : integer_add_generic(x,y):
\* a fast-path result only for two small operands with the sum in range,
\* and it is boxed(n+m); with at least one big operand, whether or not the
\* word addition overflows, one call of integer_add_generic with the
\* original x and y.
C11_AddLikeReference ==
  (Done /\ op = "integer_add") =>
    /\ SameOutcome(integer_add_reference(x, y))
    /\ BothSmall => ExactOrGeneric(nx + ny, "integer_add_generic")
    /\ ~BothSmall =>
         /\ WentGeneric("integer_add_generic")
         /\ rclog = <<Consume(<<x, y>>)>>

\* the same, for the calls whose word addition x + y stays inside int_t or
\* is done by the overflow builtins
C11_DefinedAddLikeReference ==
  (Done /\ op = "integer_add" /\ (UseBuiltins \/ ~SignedOverflow(x + y))) =>
    /\ SameOutcome(integer_add_reference(x, y))
    /\ BothSmall => ExactOrGeneric(nx + ny, "integer_add_generic")
    /\ ~BothSmall => WentGeneric("integer_add_generic")

\* the same, when an overflowing word addition wraps around
C11_WrappedAddLikeReference ==
  \A a \in Integers_, b \in Integers_ :
    LET o == GenericOvf(ToInt(a + b))
        w == IF ~o.ovf /\ And(o.r, 2) # 0
             THEN Fast(W(Xor(o.r, 3)))
             ELSE Generic("integer_add_generic", <<a, b>>)
    IN  ~UseBuiltins => w = integer_add_reference(a, b)

IsUnaryEntryOp == op \in {"integer_sqr", "integer_neg", "integer_dec", "integer_inc"}
IsBinaryEntryOp ==
  op \in {"integer_add", "integer_sub", "integer_mul", "integer_div",
          "integer_mod", "integer_div_mod", "integer_max", "integer_min"}

\* the entry point was called with small operands only
SmallOperands ==
  \/ IsUnaryEntryOp /\ is_smallint(x)
  \/ IsBinaryEntryOp /\ BothSmall

\* the call returned from its fast path
FastReturn == call = NoCall /\ fault = "none"

\* low tag bits 01 and a decoded value inside the bound
ValidSmallWord(r) == r.k = "word" /\ is_int(r.v) /\ InSmallRange(unbox_int(r.v))

\* the mathematical result of the call on its decoded operands
MathResult ==
  CASE op = "integer_add" -> nx + ny
    [] op = "integer_sub" -> nx - ny
    [] op = "integer_mul" -> nx * ny
    [] op \in {"integer_div", "integer_div_mod"} -> CDiv(nx, ny)
    [] op = "integer_mod" -> CRem(nx, ny)
    [] op = "integer_sqr" -> nx * nx
    [] op = "integer_neg" -> -nx
    [] op = "integer_dec" -> nx - 1
    [] op = "integer_inc" -> nx + 1
    [] op = "integer_max" -> IF nx >= ny THEN nx ELSE ny
    [] op = "integer_min" -> IF nx <= ny THEN nx ELSE ny

FastResultSmall ==
  /\ ValidSmallWord(res)
  /\ op = "integer_div_mod" => ValidSmallWord(mod)
  /\ ~(IsDivOp /\ ny = 0) => InSmallRange(MathResult)

\* C12: every value an entry point (add, sub, mul, div, mod, div_mod, neg,
\* sqr, inc, dec, max, min) returns from its fast path on small operands is
\* a valid small integer, low tag bits 01 and decoded value in
\* [SMALLINT_MIN, SMALLINT_MAX]; a mathematical result outside the bound is
\* never returned as a small word but handed to the generic boundary.
C12_FastResultsSmall ==
  (Done /\ SmallOperands /\ FastReturn) => FastResultSmall

\* the same for the calls of div, mod and div_mod whose divisor is not zero
C12_DefinedDivisionsSmall ==
  (Done /\ IsDivOp /\ BothSmall /\ ny # 0 /\ FastReturn) => FastResultSmall

\* the same for every entry point but div, mod and div_mod
C12_OthersFastResultsSmall ==
  (Done /\ SmallOperands /\ ~IsDivOp /\ FastReturn) =>
    /\ FastResultSmall
    /\ res = W(4 * MathResult + 1)

\* every result outside the bound of an entry point other than div, mod and
\* div_mod went to the generic boundary
C12_OthersOverflowGeneric ==
  (Done /\ SmallOperands /\ ~IsDivOp /\ ~InSmallRange(MathResult)) =>
    res.k = "generic"

=============================================================================
